---- MODULE Spec2Model ----
(***************************************************************************)
(* A model of the GCS MCP server (src/src/server.py): the tool handlers    *)
(* list_buckets, create_bucket, delete_bucket, read_object, upload_object, *)
(* delete_object, copy_object and list_object_versions, the start-up probe *)
(* that precedes their registration, and the storage provider they call.   *)
(*                                                                         *)
(* The provider is the environment of the adapter.  It is modelled by the  *)
(* contract the handlers consume at each call site: buckets with a         *)
(* location, a storage class and a versioning flag; objects as sets of     *)
(* generations, at most one of them live per name; not-found, conflict and *)
(* network failures raised by the client library and propagated unchanged. *)
(* Timestamps and md5 hashes are left out of the records: no handler       *)
(* computes with them.                                                     *)
(***************************************************************************)
EXTENDS Integers, Sequences, FiniteSets, TLC

VARIABLES phase, probe, buckets, blobs, nextGen, call, last

vars == <<phase, probe, buckets, blobs, nextGen, call, last>>

(***************************************************************************)
(* Bounds and input domains.                                               *)
(***************************************************************************)
\* generations the provider hands out before uploads and copies stop
MaxGen == 3

BucketNames == {"b1", "b2"}

\* object names are character sequences, so that "starts with" is computed
NameA  == <<"d", "/", "a">>
NameA2 == <<"d", "/", "a", "2">>
DirPrefix == <<"d", "/">>

\* the provider lists objects in lexicographic order of their names
NameOrder == <<NameA, NameA2>>

ObjectNames == {NameOrder[i] : i \in 1..Len(NameOrder)}

\* paths a version listing is asked for: the objects and a bare directory
Paths == ObjectNames \cup {DirPrefix}

\* text contents are sequences of Unicode code points: "h", "e-acute" and
\* "h" followed by "e-acute"
Texts == {<<104>>, <<233>>, <<104, 233>>}

\* a content type is a media type with an optional charset parameter
\* ("" when the parameter is absent)
PlainText == [mime |-> "text/plain", charset |-> ""]

Latin1Text == [mime |-> "text/plain", charset |-> "iso-8859-1"]

ContentTypes == {PlainText, Latin1Text}

Locations == {"US", "EU"}

StorageClasses == {"STANDARD", "NEARLINE"}

NoBucket == [exists |-> FALSE]

NoText == <<-1>>

(***************************************************************************)
(* Results of a call: a value, or a failure propagated from the provider.  *)
(***************************************************************************)
Ok(v) == [ok |-> TRUE, error |-> "", value |-> v]

Err(kind) == [ok |-> FALSE, error |-> kind, value |-> << >>]

(***************************************************************************)
(* Text conversion: upload_from_string encodes a str as UTF-8; and         *)
(* download_as_text decodes the bytes with the charset parameter of the    *)
(* object's content type, or as UTF-8 when it has none.                    *)
(***************************************************************************)
Utf8OfCodePoint(c) ==
    IF c < 128 THEN <<c>>
    ELSE <<192 + (c \div 64), 128 + (c % 64)>>

RECURSIVE Utf8Encode(_)
Utf8Encode(text) ==
    IF text = << >> THEN << >>
    ELSE Utf8OfCodePoint(Head(text)) \o Utf8Encode(Tail(text))

\* the code points of a UTF-8 byte sequence, or <<-1>> where it is malformed
RECURSIVE Utf8Decode(_)
Utf8Decode(bytes) ==
    IF bytes = << >> THEN << >>
    ELSE IF bytes[1] < 128
         THEN LET rest == Utf8Decode(Tail(bytes))
              IN IF rest = NoText THEN NoText ELSE <<bytes[1]>> \o rest
    ELSE IF /\ bytes[1] >= 194 /\ bytes[1] < 224 /\ Len(bytes) >= 2
            /\ bytes[2] >= 128 /\ bytes[2] < 192
         THEN LET rest == Utf8Decode(SubSeq(bytes, 3, Len(bytes)))
              IN IF rest = NoText THEN NoText
                 ELSE <<(bytes[1] - 192) * 64 + (bytes[2] - 128)>> \o rest
    ELSE NoText

\* ISO-8859-1 maps every byte to the code point of the same number
Latin1Decode(bytes) == bytes

DecodeText(bytes, ctype) ==
    IF ctype.charset = "iso-8859-1" THEN Latin1Decode(bytes)
    ELSE Utf8Decode(bytes)

(***************************************************************************)
(* The provider's state, as the handlers see it.                           *)
(***************************************************************************)
BucketExists(b) == buckets[b] # NoBucket

BlobsOf(b) == {x \in blobs : x.bucket = b}

Versions(b, p) == {x \in blobs : x.bucket = b /\ x.name = p}

Live(b, p) == {x \in Versions(b, p) : x.live}

HasPrefix(name, prefix) ==
    /\ Len(prefix) <= Len(name)
    /\ SubSeq(name, 1, Len(prefix)) = prefix

\* a set of blobs of one name as a sequence, by increasing generation
RECURSIVE ByGeneration(_)
ByGeneration(S) ==
    IF S = {} THEN << >>
    ELSE LET m == CHOOSE x \in S : \A y \in S : x.generation <= y.generation
         IN <<m>> \o ByGeneration(S \ {m})

\* the provider's listing: by name, and by generation within a name
RECURSIVE ListBlobsFrom(_, _, _, _)
ListBlobsFrom(i, b, prefix, versions) ==
    IF i > Len(NameOrder) THEN << >>
    ELSE LET n == NameOrder[i]
             S == IF versions THEN Versions(b, n) ELSE Live(b, n)
         IN (IF HasPrefix(n, prefix) THEN ByGeneration(S) ELSE << >>)
            \o ListBlobsFrom(i + 1, b, prefix, versions)

ListBlobs(b, prefix, versions) == ListBlobsFrom(1, b, prefix, versions)

Range(s) == {s[i] : i \in 1..Len(s)}

TypeOK ==
    /\ phase \in {"start", "serving", "failed"}
    /\ nextGen \in 1..(MaxGen + 1)
    /\ \A b \in BucketNames : buckets[b] = NoBucket \/ buckets[b].exists
    /\ \A x \in blobs : x.generation < nextGen /\ BucketExists(x.bucket)
    /\ \A b \in BucketNames, p \in ObjectNames : Cardinality(Live(b, p)) <= 1

(***************************************************************************)
(* Init: the process has been started and nothing has run yet.  The        *)
(* project holds no bucket, or one empty bucket b1 with object versioning  *)
(* off or on (versioning is set outside this program).                     *)
(***************************************************************************)
IdleCall == [pc |-> "idle", bucket |-> "", blobs |-> << >>, k |-> 0,
             foreign |-> "none"]

NoCall == [op |-> "none", bucket |-> "", name |-> << >>, error |-> "",
           again |-> FALSE]

Init ==
    /\ phase = "start"
    /\ probe = "pending"
    /\ \E v \in BOOLEAN, present \in BOOLEAN :
         buckets = [b \in BucketNames |->
                      IF b = "b1" /\ present
                      THEN [exists |-> TRUE, location |-> "US",
                            storage_class |-> "STANDARD", versioning |-> v]
                      ELSE NoBucket]
    /\ blobs = {}
    /\ nextGen = 1
    /\ call = IdleCall
    /\ last = NoCall

(***************************************************************************)
(* Book-keeping of calls.  last is the call that completed most recently:  *)
(* the operation, the bucket and object it addressed (the destination, for *)
(* a copy), the failure it raised ("" when it returned), and again, set    *)
(* when the call before it was the same operation on the same target and   *)
(* returned.  call is the forced bucket deletion under way (pc "loop") or  *)
(* just ended (pc "done").  While it is under way, calls completed by      *)
(* other invocations are summed up in call.foreign: the adapter takes no   *)
(* lock and the provider is shared.  "fresh" stands for uploads into the   *)
(* bucket at paths that were not awaiting deletion, "upload" for uploads   *)
(* into the bucket of which one was at a path awaiting deletion, "other"   *)
(* for anything else.  The next state-changing call after the end clears   *)
(* the record.                                                             *)
(***************************************************************************)
Done(op, b, n, error) ==
    [op |-> op, bucket |-> b, name |-> n, error |-> error,
     again |-> last.op = op /\ last.bucket = b /\ last.name = n
               /\ last.error = ""]

\* the enumerated blobs a forced deletion has not deleted yet
Remaining == {call.blobs[i] : i \in (call.k + 1)..Len(call.blobs)}

Deleted == {call.blobs[i] : i \in 1..call.k}

Pending(b, n) ==
    /\ call.pc = "loop"
    /\ b = call.bucket
    /\ \E x \in Remaining : x.name = n

Noted(op, b, n) ==
    IF call.pc = "loop"
    THEN [call EXCEPT !.foreign =
            IF op = "upload_object" /\ b = call.bucket /\ @ # "other"
            THEN IF Pending(b, n) \/ @ = "upload" THEN "upload" ELSE "fresh"
            ELSE "other"]
    ELSE IdleCall

(***************************************************************************)
(* Normalised records.                                                     *)
(***************************************************************************)
BucketInfo(b) ==
    [name |-> b, location |-> buckets[b].location,
     storage_class |-> buckets[b].storage_class]

VersionRecord(x) ==
    [name |-> x.name, generation |-> x.generation, size |-> Len(x.data)]

MapSeq(F(_), s) == [i \in 1..Len(s) |-> F(s[i])]

(***************************************************************************)
(* Module initialisation: the client is built and probed before any tool   *)
(* is registered.  next() on the bucket iterator raises StopIteration when *)
(* the project holds no bucket; every exception is logged and re-raised.   *)
(***************************************************************************)
BucketOrder == <<"b1", "b2">>

ExistingBuckets == SelectSeq(BucketOrder, BucketExists)

ProbeNoRaise ==
    /\ phase = "start"
    /\ \/ probe' = "Network"
       \/ /\ ExistingBuckets = << >>
          /\ probe' = "StopIteration"
       \/ /\ ExistingBuckets # << >>
          /\ probe' = Head(ExistingBuckets)
    /\ phase' = "serving"
    /\ UNCHANGED <<buckets, blobs, nextGen, call, last>>

Probe ==
    /\ phase = "start"
    /\ \/ /\ probe' = "Network"
          /\ phase' = "failed"
       \/ /\ ExistingBuckets = << >>
          /\ probe' = "StopIteration"
          /\ phase' = "failed"
       \/ /\ ExistingBuckets # << >>
          /\ probe' = Head(ExistingBuckets)
          /\ phase' = "serving"
    /\ UNCHANGED <<buckets, blobs, nextGen, call, last>>

(***************************************************************************)
(* Bucket operations.                                                      *)
(***************************************************************************)
ListBuckets == MapSeq(BucketInfo, ExistingBuckets)

list_buckets ==
    /\ phase = "serving"
    /\ last' = Done("list_buckets", "", << >>, "")
    /\ UNCHANGED <<phase, probe, buckets, blobs, nextGen, call>>

NewBucket(location, storage_class) ==
    [exists |-> TRUE, location |-> location, storage_class |-> storage_class,
     versioning |-> FALSE]

create_bucket_overwrite(b, location, storage_class) ==
    /\ phase = "serving"
    /\ buckets' = [buckets EXCEPT ![b] = NewBucket(location, storage_class)]
    /\ last' = Done("create_bucket", b, << >>, "")
    /\ call' = Noted("create_bucket", b, << >>)
    /\ UNCHANGED <<phase, probe, blobs, nextGen>>

create_bucket(b, location, storage_class) ==
    /\ phase = "serving"
    /\ IF BucketExists(b)
       THEN /\ last' = Done("create_bucket", b, << >>, "AlreadyExists")
            /\ UNCHANGED <<buckets, call>>
       ELSE /\ buckets' = [buckets EXCEPT
                             ![b] = NewBucket(location, storage_class)]
            /\ last' = Done("create_bucket", b, << >>, "")
            /\ call' = Noted("create_bucket", b, << >>)
    /\ UNCHANGED <<phase, probe, blobs, nextGen>>

\* bucket.delete(): the provider refuses to delete a bucket that is missing
\* or that still holds a generation of any object, live or noncurrent
BucketDeleteError(b) ==
    IF ~BucketExists(b) THEN "NotFound"
    ELSE IF BlobsOf(b) # {} THEN "PreconditionFailed"
    ELSE ""

delete_bucket_plain_cascade(b) ==
    /\ phase = "serving"
    /\ BucketExists(b)
    /\ buckets' = [buckets EXCEPT ![b] = NoBucket]
    /\ blobs' = blobs \ BlobsOf(b)
    /\ last' = Done("delete_bucket", b, << >>, "")
    /\ call' = Noted("delete_bucket", b, << >>)
    /\ UNCHANGED <<phase, probe, nextGen>>

\* delete_bucket(b, force=False): the one call bucket.delete()
delete_bucket_plain(b) ==
    /\ phase = "serving"
    /\ IF BucketDeleteError(b) # ""
       THEN /\ last' = Done("delete_bucket", b, << >>, BucketDeleteError(b))
            /\ UNCHANGED <<buckets, call>>
       ELSE /\ buckets' = [buckets EXCEPT ![b] = NoBucket]
            /\ last' = Done("delete_bucket", b, << >>, "")
            /\ call' = Noted("delete_bucket", b, << >>)
    /\ UNCHANGED <<phase, probe, blobs, nextGen>>

(***************************************************************************)
(* delete_bucket(b, force=True), one provider round trip per step: the     *)
(* listing of the live blobs, blob.delete() for each listed blob (a listed *)
(* blob carries its generation, and is deleted by it), bucket.delete().    *)
(* Any round trip may fail; the failure ends the call and is propagated.   *)
(***************************************************************************)
BlobKey(x) == [name |-> x.name, generation |-> x.generation]

Finish(error) ==
    /\ last' = Done("delete_bucket_force", call.bucket, << >>, error)
    /\ call' = [call EXCEPT !.pc = "done"]

delete_bucket_list(b) ==
    /\ phase = "serving"
    /\ call.pc # "loop"
    /\ IF BucketExists(b)
       THEN /\ call' = [pc |-> "loop", bucket |-> b,
                        blobs |-> MapSeq(BlobKey, ListBlobs(b, << >>, FALSE)),
                        k |-> 0, foreign |-> "none"]
            /\ UNCHANGED last
       ELSE /\ last' = Done("delete_bucket_force", b, << >>, "NotFound")
            /\ call' = IdleCall
    /\ UNCHANGED <<phase, probe, buckets, blobs, nextGen>>

delete_bucket_blob ==
    /\ call.pc = "loop"
    /\ call.k < Len(call.blobs)
    /\ LET key == call.blobs[call.k + 1]
           hit == {x \in BlobsOf(call.bucket) : BlobKey(x) = key}
       IN IF hit # {}
          THEN /\ blobs' = blobs \ hit
               /\ call' = [call EXCEPT !.k = @ + 1]
               /\ UNCHANGED last
          ELSE /\ Finish("NotFound")
               /\ UNCHANGED blobs
    /\ UNCHANGED <<phase, probe, buckets, nextGen>>

delete_bucket_final_force ==
    /\ call.pc = "loop"
    /\ call.k = Len(call.blobs)
    /\ IF ~BucketExists(call.bucket)
       THEN /\ Finish("NotFound")
            /\ UNCHANGED <<buckets, blobs>>
       ELSE /\ buckets' = [buckets EXCEPT ![call.bucket] = NoBucket]
            /\ blobs' = blobs \ BlobsOf(call.bucket)
            /\ Finish("")
    /\ UNCHANGED <<phase, probe, nextGen>>

delete_bucket_final ==
    /\ call.pc = "loop"
    /\ call.k = Len(call.blobs)
    /\ IF BucketDeleteError(call.bucket) # ""
       THEN /\ Finish(BucketDeleteError(call.bucket))
            /\ UNCHANGED buckets
       ELSE /\ buckets' = [buckets EXCEPT ![call.bucket] = NoBucket]
            /\ Finish("")
    /\ UNCHANGED <<phase, probe, blobs, nextGen>>

delete_bucket_interrupted ==
    /\ call.pc = "loop"
    /\ Finish("Network")
    /\ UNCHANGED <<phase, probe, buckets, blobs, nextGen>>

(***************************************************************************)
(* Object operations.                                                      *)
(***************************************************************************)
\* what a write of a new live generation does to the generation it replaces:
\* a versioned bucket keeps it as a noncurrent generation
Superseded(b, p) ==
    IF buckets[b].versioning
    THEN {[x EXCEPT !.live = FALSE, !.text = NoText] : x \in Live(b, p)}
    ELSE {}

\* blob.download_as_text() on a blob built from its name
ReadObject(b, p) ==
    IF ~BucketExists(b) \/ Live(b, p) = {} THEN Err("NotFound")
    ELSE LET x == CHOOSE x \in Live(b, p) : TRUE
             t == DecodeText(x.data, x.content_type)
         IN IF t = NoText THEN Err("Decode") ELSE Ok(t)

read_object(b, p) ==
    /\ phase = "serving"
    /\ last' = Done("read_object", b, p, ReadObject(b, p).error)
    /\ UNCHANGED <<phase, probe, buckets, blobs, nextGen, call>>

\* the blob an upload or a copy stores; text remembers the str an upload
\* was given, and is NoText for a copy and for a noncurrent generation
NewBlob(b, p, data, content_type, text) ==
    [bucket |-> b, name |-> p, generation |-> nextGen, data |-> data,
     content_type |-> content_type, live |-> TRUE, text |-> text]

upload_object(b, p, content, content_type) ==
    /\ phase = "serving"
    /\ IF ~BucketExists(b)
       THEN /\ last' = Done("upload_object", b, p, "NotFound")
            /\ UNCHANGED <<blobs, nextGen, call>>
       ELSE /\ nextGen <= MaxGen
            /\ blobs' = (blobs \ Live(b, p)) \cup Superseded(b, p)
                          \cup {NewBlob(b, p, Utf8Encode(content),
                                        content_type, content)}
            /\ last' = Done("upload_object", b, p, "")
            /\ nextGen' = nextGen + 1
            /\ call' = Noted("upload_object", b, p)
    /\ UNCHANGED <<phase, probe, buckets>>

delete_object_tolerant(b, p) ==
    /\ phase = "serving"
    /\ IF ~BucketExists(b) \/ Live(b, p) = {}
       THEN /\ last' = Done("delete_object", b, p, "")
            /\ UNCHANGED <<blobs, call>>
       ELSE /\ blobs' = (blobs \ Live(b, p)) \cup Superseded(b, p)
            /\ last' = Done("delete_object", b, p, "")
            /\ call' = Noted("delete_object", b, p)
    /\ UNCHANGED <<phase, probe, buckets, nextGen>>

\* blob.delete() on a blob built from its name alone: the live generation
delete_object(b, p) ==
    /\ phase = "serving"
    /\ IF ~BucketExists(b) \/ Live(b, p) = {}
       THEN /\ last' = Done("delete_object", b, p, "NotFound")
            /\ UNCHANGED <<blobs, call>>
       ELSE /\ blobs' = (blobs \ Live(b, p)) \cup Superseded(b, p)
            /\ last' = Done("delete_object", b, p, "")
            /\ call' = Noted("delete_object", b, p)
    /\ UNCHANGED <<phase, probe, buckets, nextGen>>

CopySourceMissing(sb, so, db) ==
    \/ ~BucketExists(sb)
    \/ Live(sb, so) = {}
    \/ ~BucketExists(db)

copy_object_move(sb, so, db, do) ==
    /\ phase = "serving"
    /\ ~CopySourceMissing(sb, so, db)
    /\ nextGen <= MaxGen
    /\ LET src == CHOOSE x \in Live(sb, so) : TRUE
       IN blobs' = (blobs \ (Live(db, do) \cup Live(sb, so)))
                     \cup Superseded(db, do)
                     \cup {NewBlob(db, do, src.data, src.content_type, NoText)}
    /\ last' = Done("copy_object", db, do, "")
    /\ nextGen' = nextGen + 1
    /\ call' = Noted("copy_object", db, do)
    /\ UNCHANGED <<phase, probe, buckets>>

copy_object(sb, so, db, do) ==
    /\ phase = "serving"
    /\ IF CopySourceMissing(sb, so, db)
       THEN /\ last' = Done("copy_object", db, do, "NotFound")
            /\ UNCHANGED <<blobs, nextGen, call>>
       ELSE /\ nextGen <= MaxGen
            /\ LET src == CHOOSE x \in Live(sb, so) : TRUE
               IN blobs' = (blobs \ Live(db, do)) \cup Superseded(db, do)
                             \cup {NewBlob(db, do, src.data,
                                           src.content_type, NoText)}
            /\ last' = Done("copy_object", db, do, "")
            /\ nextGen' = nextGen + 1
            /\ call' = Noted("copy_object", db, do)
    /\ UNCHANGED <<phase, probe, buckets>>

\* bucket.list_blobs(prefix=object_path, versions=True), then the filter
\* blob.name == object_path of the handler
ListObjectVersionsUnfiltered(b, p) ==
    IF ~BucketExists(b) THEN Err("NotFound")
    ELSE Ok(MapSeq(VersionRecord, ListBlobs(b, p, TRUE)))

ListObjectVersionsLenient(b, p) ==
    IF ~BucketExists(b) THEN Ok(<< >>)
    ELSE LET ExactName(x) == x.name = p
         IN Ok(MapSeq(VersionRecord,
                      SelectSeq(ListBlobs(b, p, TRUE), ExactName)))

ListObjectVersions(b, p) ==
    IF ~BucketExists(b) THEN Err("NotFound")
    ELSE LET ExactName(x) == x.name = p
         IN Ok(MapSeq(VersionRecord,
                      SelectSeq(ListBlobs(b, p, TRUE), ExactName)))

list_object_versions(b, p) ==
    /\ phase = "serving"
    /\ last' = Done("list_object_versions", b, p,
                    ListObjectVersions(b, p).error)
    /\ UNCHANGED <<phase, probe, buckets, blobs, nextGen, call>>

(***************************************************************************)
(* The specifications.  Spec is the whole server: every operation, called  *)
(* with every argument of the input domains.  The other specifications     *)
(* are Spec with the calls narrowed to those that bear on a group of       *)
(* operations.                                                             *)
(***************************************************************************)
AllSettings == Locations \X StorageClasses

\* two settings for created buckets, differing in location and storage class
SomeSettings == {<<"US", "STANDARD">>, <<"EU", "NEARLINE">>}

AllUploads == Texts \X ContentTypes

Next ==
    \/ Probe
    \/ list_buckets
    \/ \E b \in BucketNames, s \in AllSettings : create_bucket(b, s[1], s[2])
    \/ \E b \in BucketNames : delete_bucket_plain(b)
    \/ \E b \in BucketNames : delete_bucket_list(b)
    \/ delete_bucket_blob
    \/ delete_bucket_final
    \/ delete_bucket_interrupted
    \/ \E b \in BucketNames, p \in ObjectNames : read_object(b, p)
    \/ \E b \in BucketNames, p \in ObjectNames, u \in AllUploads :
         upload_object(b, p, u[1], u[2])
    \/ \E b \in BucketNames, p \in ObjectNames : delete_object(b, p)
    \/ \E sb \in BucketNames, so \in ObjectNames,
          db \in BucketNames, do \in ObjectNames : copy_object(sb, so, db, do)
    \/ \E b \in BucketNames, p \in Paths : list_object_versions(b, p)

Spec == Init /\ [][Next]_vars

\* contents: reads, writes and copies of three objects, two of them in b1,
\* where b2 exists once it has been created
Slots == {<<"b1", NameA>>, <<"b1", NameA2>>, <<"b2", NameA>>}

SomeUploads == {<<<<233>>, PlainText>>, <<<<104, 233>>, Latin1Text>>}

NextContent ==
    \/ Probe
    \/ create_bucket("b2", "EU", "NEARLINE")
    \/ \E s \in Slots : read_object(s[1], s[2])
    \/ \E s \in Slots, u \in SomeUploads :
         upload_object(s[1], s[2], u[1], u[2])
    \/ \E s \in Slots : delete_object(s[1], s[2])
    \/ \E s \in Slots, d \in Slots : copy_object(s[1], s[2], d[1], d[2])

SpecContent == Init /\ [][NextContent]_vars

\* versions: writes, deletions and version listings of the two objects that
\* share a prefix, in b1 and b2, where b2 exists once it has been created
NextVersions ==
    \/ Probe
    \/ create_bucket("b2", "EU", "NEARLINE")
    \/ \E b \in BucketNames : delete_bucket_plain(b)
    \/ \E b \in BucketNames, p \in ObjectNames :
         upload_object(b, p, <<104>>, PlainText)
    \/ \E b \in BucketNames, p \in ObjectNames : delete_object(b, p)
    \/ \E p \in ObjectNames : copy_object("b1", p, "b1", NameA2)
    \/ \E b \in BucketNames, p \in Paths : list_object_versions(b, p)

SpecVersions == Init /\ [][NextVersions]_vars

\* bucket operations: creation, listing and both deletions of b1 and b2,
\* with one object name to fill the buckets
NextBuckets ==
    \/ Probe
    \/ list_buckets
    \/ \E b \in BucketNames, s \in SomeSettings : create_bucket(b, s[1], s[2])
    \/ \E b \in BucketNames : delete_bucket_plain(b)
    \/ \E b \in BucketNames : delete_bucket_list(b)
    \/ delete_bucket_blob
    \/ delete_bucket_final
    \/ delete_bucket_interrupted
    \/ \E b \in BucketNames : upload_object(b, NameA, <<104>>, PlainText)
    \/ \E b \in BucketNames : delete_object(b, NameA)

SpecBuckets == Init /\ [][NextBuckets]_vars

\* the forced deletion of b1 and the calls that interleave with it
NextForce ==
    \/ Probe
    \/ create_bucket("b1", "US", "STANDARD")
    \/ delete_bucket_plain("b1")
    \/ delete_bucket_list("b1")
    \/ delete_bucket_blob
    \/ delete_bucket_final
    \/ delete_bucket_interrupted
    \/ \E p \in ObjectNames : upload_object("b1", p, <<104>>, PlainText)
    \/ \E p \in ObjectNames : delete_object("b1", p)

SpecForce == Init /\ [][NextForce]_vars

(***************************************************************************)
(* The claims.                                                             *)
(***************************************************************************)
\* C1: in an existing bucket, list_object_versions(b, p) returns exactly one
\* record per stored generation of the object named p, and no record of an
\* object whose name only starts with p.
C1_VersionsExact ==
    \A b \in BucketNames, p \in Paths :
        BucketExists(b) =>
            LET r == ListObjectVersions(b, p)
            IN /\ r.ok
               /\ Len(r.value) = Cardinality(Versions(b, p))
               /\ {v.generation : v \in Range(r.value)}
                    = {x.generation : x \in Versions(b, p)}
               /\ \A v \in Range(r.value) : v.name = p

\* two generations of d/a and one of d/a2 are stored, and d/a was listed
C1_Witness ==
    /\ last.op = "list_object_versions"
    /\ last.name = NameA
    /\ last.error = ""
    /\ Cardinality(Versions(last.bucket, NameA)) >= 2
    /\ Versions(last.bucket, NameA2) # {}

\* C6 as stated: list_object_versions(b, p) returns the empty sequence and
\* does not fail when b does not exist or holds no object named p.
C6_Original ==
    (/\ last.op = "list_object_versions"
     /\ \/ ~BucketExists(last.bucket)
        \/ Versions(last.bucket, last.name) = {})
        => /\ last.error = ""
           /\ ListObjectVersions(last.bucket, last.name) = Ok(<< >>)

\* C6 as amended: list_object_versions(b, p) returns the empty sequence when
\* b exists and holds no object named p, and fails with not-found when b
\* does not exist.
C6_MissingBucketRaises ==
    \A b \in BucketNames, p \in Paths :
        IF BucketExists(b)
        THEN Versions(b, p) = {} => ListObjectVersions(b, p) = Ok(<< >>)
        ELSE ListObjectVersions(b, p) = Err("NotFound")

\* a listing of a missing bucket has failed, while another bucket holds d/a2
\* and no d/a
C6_Witness ==
    /\ last.op = "list_object_versions"
    /\ ~BucketExists(last.bucket)
    /\ last.error = "NotFound"
    /\ \E b \in BucketNames :
         /\ BucketExists(b)
         /\ Versions(b, NameA) = {}
         /\ Versions(b, NameA2) # {}

\* C7: delete_object(b, p) on an existing object returns true and removes
\* the object; called again right after, it fails with not-found and leaves
\* buckets and objects as they were.
C7_DeleteTwice ==
    [][\A b \in BucketNames, p \in ObjectNames :
         (last'.op = "delete_object" /\ delete_object(b, p)) =>
           /\ (Live(b, p) # {}) => (last'.error = "" /\ Live(b, p)' = {})
           /\ (last.op = "delete_object" /\ last.bucket = b /\ last.name = p
               /\ last.error = "")
                => /\ last'.error = "NotFound"
                   /\ UNCHANGED <<buckets, blobs>>]_vars

\* the second of two delete_object calls in a row on one path has failed
C7_Witness ==
    /\ last.op = "delete_object"
    /\ last.again
    /\ last.error = "NotFound"

\* C4: while the last successful write to path p of bucket b is an
\* upload_object of the text c, read_object(b, p) returns exactly c.
C4_RoundTrip ==
    last.op = "read_object" =>
        \A x \in Live(last.bucket, last.name) :
            x.text # NoText => ReadObject(x.bucket, x.name) = Ok(x.text)

\* C5: copy_object leaves what read_object returns for the source as it
\* was, and creates or changes nothing but the destination object.
C5_CopyFrame ==
    [][\A s \in Slots, d \in Slots :
         (last'.op = "copy_object" /\ copy_object(s[1], s[2], d[1], d[2])) =>
           /\ ReadObject(s[1], s[2])' = ReadObject(s[1], s[2])
           /\ buckets' = buckets
           /\ {x \in blobs' : ~(x.bucket = d[1] /\ x.name = d[2])}
                = {x \in blobs : ~(x.bucket = d[1] /\ x.name = d[2])}]_vars

\* d/a of b1 was copied to d/a2 of the same bucket: the copy is live, and
\* the source is live with the same bytes
C5_Witness ==
    /\ last.op = "copy_object"
    /\ last.error = ""
    /\ last.bucket = "b1"
    /\ last.name = NameA2
    /\ \E x \in Live("b1", NameA2), y \in Live("b1", NameA) :
         /\ x.text = NoText
         /\ x.generation = nextGen - 1
         /\ x.data = y.data
         /\ ReadObject("b1", NameA).ok

\* C3: delete_bucket(b, force=false) on a bucket that holds an object fails
\* with the precondition failure, and leaves buckets and objects as they
\* were.
C3_PlainDeleteRefused ==
    [][\A b \in BucketNames :
         (/\ last'.op = "delete_bucket"
          /\ delete_bucket_plain(b)
          /\ BlobsOf(b) # {}) =>
           /\ last'.error = "PreconditionFailed"
           /\ UNCHANGED <<buckets, blobs>>]_vars

\* a plain deletion of a bucket holding a live object has been refused
C3_Witness ==
    /\ last.op = "delete_bucket"
    /\ last.error = "PreconditionFailed"
    /\ \E x \in BlobsOf(last.bucket) : x.live

C10_StartupGate ==
    /\ phase = "start" => probe = "pending"
    /\ phase = "serving" => probe \in BucketNames
    /\ phase = "failed" => probe \in {"Network", "StopIteration"}
    /\ phase # "serving" => last = NoCall /\ call = IdleCall /\ blobs = {}
    /\ (phase # "start" /\ ExistingBuckets = << >> /\ last = NoCall)
         => phase = "failed"

\* the project held no bucket, the probe raised StopIteration
C10_Witness ==
    /\ phase = "failed"
    /\ probe = "StopIteration"
    /\ ExistingBuckets = << >>

\* the forced deletion of call.bucket is the call that completed last
Ended == call.pc = "done" /\ last.op = "delete_bucket_force"

\* C2: delete_bucket(b, force=true) on an existing bucket, left alone by
\* other calls and by provider failures, returns true and leaves neither
\* the bucket nor any object of it.
C2_ForceDeleteSucceeds ==
    (/\ Ended
     /\ call.foreign = "none"
     /\ last.error # "Network")
        => /\ last.error = ""
           /\ ~BucketExists(call.bucket)
           /\ BlobsOf(call.bucket) = {}

\* a forced deletion that failed, undisturbed but for uploads at paths that
\* were not awaiting deletion, has left the bucket in place, the k blobs it
\* deleted absent and the other enumerated blobs present
NoRollback ==
    (/\ Ended
     /\ last.error # ""
     /\ call.foreign \in {"none", "fresh"})
        => /\ BucketExists(call.bucket)
           /\ \A key \in Deleted :
                ~\E x \in BlobsOf(call.bucket) : BlobKey(x) = key
           /\ \A key \in Remaining :
                \E x \in BlobsOf(call.bucket) : BlobKey(x) = key /\ x.live

\* a forced deletion that met uploads of the given kinds, and no provider
\* failure, has failed at bucket.delete() with every enumerated blob deleted
\* and the bucket in place
UploadBlocksDelete(kinds) ==
    (/\ Ended
     /\ last.error # "Network"
     /\ call.foreign \in kinds)
        => /\ last.error = "PreconditionFailed"
           /\ call.k = Len(call.blobs)
           /\ BucketExists(call.bucket)
           /\ \A key \in Range(call.blobs) :
                ~\E x \in BlobsOf(call.bucket) : BlobKey(x) = key

====
